---- MODULE Spec2Model ----
(***************************************************************************)
(* easy-fs: the block cache (src/src/block_cache.rs) and the inode layer   *)
(* (src/src/vfs.rs) as state machines.                                     *)
(*                                                                         *)
(*   Spec      the BlockCacheManager pool, its BlockCache entries, the     *)
(*             handles callers hold and the block device, one action per   *)
(*             call of the public API                                      *)
(*   SpecLock  the threads of Inode::find, Inode::ls, direct users of      *)
(*             get_block_cache and block_cache_sync_all, one action per    *)
(*             acquisition or release of a spin::Mutex                     *)
(*   SpecVfs   Inode::find and Inode::ls over a directory's DirEntry       *)
(*             sequence                                                    *)
(***************************************************************************)
EXTENDS Integers, Sequences, FiniteSets, TLC

(***************************************************************************)
(* Program constants.                                                      *)
(***************************************************************************)
BLOCK_CACHE_SIZE == 16
BLOCK_SZ == 512

(***************************************************************************)
(* Bounds of the model.                                                    *)
(*   LongLived    blocks 0..LongLived-1 are loaded first, in ascending     *)
(*                order, by long-lived holders that never release or write *)
(*                them; callers get, read, write and give back the other   *)
(*                blocks freely                                            *)
(*   ExtraBlocks  block ids beyond the pool's capacity                     *)
(*   MaxHolders   handles callers hold on one entry at a time              *)
(*   MaxVal       buffer contents are 0..MaxVal                            *)
(***************************************************************************)
LongLived == 14
ExtraBlocks == 1
MaxHolders == 2
MaxVal == 1

\* usize is UsizeBits wide in the model; the crate's targets have 32 or 64.
UsizeBits == 10
UsizeModulus == 2 ^ UsizeBits

NumBlocks == BLOCK_CACHE_SIZE + ExtraBlocks
BlockIds == 0 .. (NumBlocks - 1)
ActiveIds == LongLived .. (NumBlocks - 1)
Values == 0 .. MaxVal

\* What the device holds in block b before anything is written.
InitContent(b) == b % (MaxVal + 1)

None == 0
NoEvict ==
    [id |-> -1, obj |-> None, strong |-> 0, modified |-> FALSE, cache |-> 0,
     freed |-> FALSE]

VARIABLES
    queue,   \* BlockCacheManager.queue: sequence of <<block_id, object>>
    heap,    \* the live BlockCache objects: object -> [cache, block_id, modified, strong]
    held,    \* object -> number of Arc clones in callers' hands
    dev,     \* the block device: block id -> content
    last,    \* the call made by the last step, and its outcome
    io,      \* the device operations the last step issued, in order
    got,     \* block id -> object the latest get_block_cache of it returned, None once evicted
    shadow,  \* block id -> value last written to it through the cache
    th,        \* SpecLock: thread -> [op, pc, blk, left, j]
    fs_lock,   \* SpecLock: owner of Inode.fs (Mutex<EasyFileSystem>), NoThread if free
    mgr_lock,  \* SpecLock: owner of BLOCK_CACHE_MANAGER, NoThread if free
    blk_lock,  \* SpecLock: block -> owner of its Mutex<BlockCache>, NoThread if free
    dir,       \* SpecVfs: the DiskInode the handle locates: [type, size, entries]
    vlast      \* SpecVfs: the call made by the last step, and its outcome

cacheVars == <<queue, heap, held, dev, last, io, got, shadow>>
lockVars == <<th, fs_lock, mgr_lock, blk_lock>>
vfsVars == <<dir, vlast>>
vars == <<queue, heap, held, dev, last, io, got, shadow, th, fs_lock, mgr_lock, blk_lock,
          dir, vlast>>

(***************************************************************************)
(* Device operations as they are logged in io.                             *)
(***************************************************************************)
ReadOp(b) == [op |-> "read_block", id |-> b, val |-> 0]
WriteOp(b, v) == [op |-> "write_block", id |-> b, val |-> v]
Writes(s) == SelectSeq(s, LAMBDA e : e.op = "write_block")
Reads(s) == SelectSeq(s, LAMBDA e : e.op = "read_block")

(***************************************************************************)
(* BlockCache                                                              *)
(***************************************************************************)
\* A constructor that leaves the buffer zeroed and reads nothing.
BlockCacheNewZeroed(block_id, d) ==
    [bc |-> [cache |-> 0, block_id |-> block_id, modified |-> FALSE], io |-> <<>>]

\* BlockCache::new: one read_block fills the buffer; the entry starts clean.
BlockCacheNew(block_id, d) ==
    [bc |-> [cache |-> d[block_id], block_id |-> block_id, modified |-> FALSE],
     io |-> <<ReadOp(block_id)>>]

\* core::mem::size_of::<T>() for the T the model's callers use, a u32.
type_size == 4

\* The offsets callers pass: the largest that fits, the smallest that does
\* not, and the largest usize.
Offsets == {BLOCK_SZ - type_size, BLOCK_SZ - type_size + 1, UsizeModulus - 1}

\* let type_size = size_of::<T>(); assert!(offset + type_size <= BLOCK_SZ);
\* the sum is a usize sum: with overflow checks it panics when it does not
\* fit, without them it wraps.
CheckOffset(offset, overflow_checks) ==
    IF overflow_checks /\ offset + type_size >= UsizeModulus
    THEN "Overflow"
    ELSE IF ((offset + type_size) % UsizeModulus) <= BLOCK_SZ
    THEN "ok"
    ELSE "BoundsFailure"

\* BlockCache::addr_of_offset: &self.cache[offset], an index into
\* [u8; BLOCK_SZ].
addr_of_offset(offset) == IF offset < BLOCK_SZ THEN "ok" ELSE "IndexOutOfBounds"

\* A get_mut that hands out the buffer without setting the flag.
get_mut_unmarked(bc, v) == [bc EXCEPT !.cache = v]

\* A get_mut whose callback stores into a copy of the buffer.
get_mut_on_copy(bc, v) == [bc EXCEPT !.modified = TRUE]

\* BlockCache::get_mut followed by the callback's store of v.
get_mut(bc, v) == [bc EXCEPT !.modified = TRUE, !.cache = v]

\* BlockCache::get_ref: the caller sees the buffer.
get_ref(bc) == bc.cache

\* A sync that clears the flag and writes nothing.
sync_no_write(bc, d) == [bc |-> [bc EXCEPT !.modified = FALSE], dev |-> d, io |-> <<>>]

\* A sync that writes back and forgets to clear the flag.
sync_keeps_flag(bc, d) ==
    IF bc.modified
    THEN [bc |-> bc,
          dev |-> [d EXCEPT ![bc.block_id] = bc.cache],
          io |-> <<[op |-> "write_block", id |-> bc.block_id, val |-> bc.cache]>>]
    ELSE [bc |-> bc, dev |-> d, io |-> <<>>]

\* BlockCache::sync: write the buffer back iff modified, and clear the flag.
sync(bc, d) ==
    IF bc.modified
    THEN [bc |-> [bc EXCEPT !.modified = FALSE],
          dev |-> [d EXCEPT ![bc.block_id] = bc.cache],
          io |-> <<WriteOp(bc.block_id, bc.cache)>>]
    ELSE [bc |-> bc, dev |-> d, io |-> <<>>]

\* A Drop that does not sync.
drop_no_sync(bc, d) == [bc |-> bc, dev |-> d, io |-> <<>>]

\* impl Drop for BlockCache: sync, then the object is gone.
drop(bc, d) == sync(bc, d)

(***************************************************************************)
(* Arc<Mutex<BlockCache>>: the strong count is a field of the object.      *)
(***************************************************************************)
Remove(f, o) == [x \in (DOMAIN f) \ {o} |-> f[x]]
Extend(f, o, v) == [x \in (DOMAIN f) \cup {o} |-> IF x = o THEN v ELSE f[x]]

strong_count(h, o) == h[o].strong

\* Dropping one Arc clone of o: the last one drops the BlockCache.
ArcDrop(h, d, o) ==
    IF h[o].strong = 1
    THEN LET s == drop([cache |-> h[o].cache, block_id |-> h[o].block_id,
                        modified |-> h[o].modified], d)
         IN [heap |-> Remove(h, o), dev |-> s.dev, io |-> s.io, freed |-> TRUE]
    ELSE [heap |-> [h EXCEPT ![o].strong = @ - 1], dev |-> d, io |-> <<>>,
          freed |-> FALSE]

\* Arc::new: a fresh object, the least unused name.
NewObj(h) == CHOOSE n \in 1 .. (Cardinality(DOMAIN h) + 1) : n \notin DOMAIN h

(***************************************************************************)
(* BlockCacheManager                                                       *)
(***************************************************************************)
\* A lookup that inspects only the front of the queue.
LookupFront(q, block_id) == IF Len(q) > 0 /\ q[1][1] = block_id THEN 1 ELSE 0

\* queue.iter().find(|pair| pair.0 == block_id): index of the entry, 0 if none.
Lookup(q, block_id) ==
    IF \E i \in 1 .. Len(q) : q[i][1] = block_id
    THEN CHOOSE i \in 1 .. Len(q) :
             q[i][1] = block_id /\ \A j \in 1 .. (i - 1) : q[j][1] # block_id
    ELSE 0

\* An eviction scan that takes the queue's head whatever its strong count.
EvictIdxHead(q, h) == IF Len(q) > 0 THEN 1 ELSE 0

\* An eviction scan that accepts an entry with one outside holder.
EvictIdxLoose(q, h) ==
    IF \E i \in 1 .. Len(q) : h[q[i][2]].strong <= 2
    THEN CHOOSE i \in 1 .. Len(q) :
             /\ h[q[i][2]].strong <= 2
             /\ \A j \in 1 .. (i - 1) : h[q[j][2]].strong > 2
    ELSE 0

\* An eviction scan that runs from the newest entry to the oldest.
EvictIdxNewest(q, h) ==
    IF \E i \in 1 .. Len(q) : h[q[i][2]].strong = 1
    THEN CHOOSE i \in 1 .. Len(q) :
             /\ h[q[i][2]].strong = 1
             /\ \A j \in (i + 1) .. Len(q) : h[q[j][2]].strong # 1
    ELSE 0

\* queue.iter().enumerate().find(|(_, pair)| Arc::strong_count(&pair.1) == 1):
\* index of the first entry only the manager holds, 0 if none.
EvictIdx(q, h) ==
    IF \E i \in 1 .. Len(q) : strong_count(h, q[i][2]) = 1
    THEN CHOOSE i \in 1 .. Len(q) :
             /\ strong_count(h, q[i][2]) = 1
             /\ \A j \in 1 .. (i - 1) : strong_count(h, q[j][2]) # 1
    ELSE 0

\* queue.drain(idx..=idx)
Drain(q, idx) == SubSeq(q, 1, idx - 1) \o SubSeq(q, idx + 1, Len(q))

\* A hit that moves the entry to the tail of the queue.
OnHitPromote(q, hit) == Drain(q, hit) \o <<q[hit]>>

\* The queue after a hit: the entry is found through queue.iter() and its Arc
\* cloned; nothing is moved.
OnHit(q, hit) == q

\* A capacity test that is off by one.
AtCapacityLate(q) == Len(q) > BLOCK_CACHE_SIZE

\* The capacity test of get_block_cache.
AtCapacity(q) == Len(q) = BLOCK_CACHE_SIZE

\* A panic ends the run: panic!("Run Out of BlockCache!"), a failed assert!,
\* an arithmetic overflow or an index out of range.
Halted == last.out \in {"CacheExhausted", "Overflow", "BoundsFailure", "IndexOutOfBounds"}

\* The blocks a caller may ask for: the long-lived blocks once each, in
\* ascending order, before anything else; afterwards any other block.
MayRequest(block_id) ==
    IF Len(queue) < LongLived
    THEN block_id = Len(queue)
    ELSE block_id \in ActiveIds

\* The miss path after room has been made: BlockCache::new, Arc::new,
\* push_back of one clone, the other clone returned.
LoadAndPush(block_id, q, h, hd, d, pre, ev, kind) ==
    LET n == BlockCacheNew(block_id, d)
        o == NewObj(h)
    IN /\ queue' = Append(q, <<block_id, o>>)
       /\ heap' = Extend(h, o, [cache |-> n.bc.cache, block_id |-> n.bc.block_id,
                                modified |-> n.bc.modified, strong |-> 2])
       /\ held' = Extend(hd, o, 1)
       /\ dev' = d
       /\ io' = pre \o n.io
       /\ got' = [got EXCEPT ![block_id] = o, ![ev.id] = None]
       /\ last' = [op |-> "get", id |-> block_id, obj |-> o, out |-> kind,
                   val |-> 0, ev |-> ev]
       /\ UNCHANGED shadow

\* BlockCacheManager::get_block_cache behind the global lock (pub fn get_block_cache).
get_block_cache(block_id) ==
    /\ ~Halted
    /\ MayRequest(block_id)
    /\ LET hit == Lookup(queue, block_id)
       IN IF hit # 0
          THEN LET o == queue[hit][2]
               IN /\ held[o] < MaxHolders
                  /\ heap' = [heap EXCEPT ![o].strong = @ + 1]
                  /\ held' = [held EXCEPT ![o] = @ + 1]
                  /\ got' = [got EXCEPT ![block_id] = o]
                  /\ io' = <<>>
                  /\ last' = [op |-> "get", id |-> block_id, obj |-> o, out |-> "hit",
                              val |-> 0, ev |-> NoEvict]
                  /\ queue' = OnHit(queue, hit)
                  /\ UNCHANGED <<dev, shadow>>
          ELSE IF AtCapacity(queue)
          THEN LET idx == EvictIdx(queue, heap)
               IN IF idx # 0
                  THEN LET pair == queue[idx]
                           e == heap[pair[2]]
                           a == ArcDrop(heap, dev, pair[2])
                           ev == [id |-> pair[1], obj |-> pair[2], strong |-> e.strong,
                                  modified |-> e.modified, cache |-> e.cache,
                                  freed |-> a.freed]
                       IN LoadAndPush(block_id, Drain(queue, idx), a.heap,
                                      IF a.freed THEN Remove(held, pair[2]) ELSE held,
                                      a.dev, a.io, ev, "evict")
                  ELSE \* panic!("Run Out of BlockCache!")
                       /\ last' = [op |-> "get", id |-> block_id, obj |-> None,
                                   out |-> "CacheExhausted", val |-> 0, ev |-> NoEvict]
                       /\ io' = <<>>
                       /\ UNCHANGED <<queue, heap, held, dev, got, shadow>>
          ELSE LoadAndPush(block_id, queue, heap, held, dev, <<>>, NoEvict, "miss")

\* A caller drops one handle on object o.
Release(o) ==
    /\ ~Halted
    /\ o \in DOMAIN held
    /\ held[o] > 0
    /\ heap[o].block_id \in ActiveIds
    /\ LET a == ArcDrop(heap, dev, o)
       IN /\ heap' = a.heap
          /\ held' = IF a.freed THEN Remove(held, o) ELSE [held EXCEPT ![o] = @ - 1]
          /\ dev' = a.dev
          /\ io' = a.io
          /\ last' = [op |-> "release", id |-> heap[o].block_id, obj |-> o, out |-> "ok",
                      val |-> 0, ev |-> NoEvict]
    /\ UNCHANGED <<queue, got, shadow>>

\* handle.lock().modify(offset, |x: &mut u32| *x = v), in a build with or
\* without overflow checks. get_mut asserts, then sets modified, then takes
\* the address of cache[offset].
Modify(o, v, offset, overflow_checks) ==
    /\ ~Halted
    /\ o \in DOMAIN held
    /\ held[o] > 0
    /\ heap[o].block_id \in ActiveIds
    /\ LET chk == CheckOffset(offset, overflow_checks)
           idx == addr_of_offset(offset)
           bc == get_mut([cache |-> heap[o].cache, block_id |-> heap[o].block_id,
                          modified |-> heap[o].modified], v)
       IN IF chk # "ok"
          THEN /\ last' = [op |-> "modify", id |-> heap[o].block_id, obj |-> o,
                           out |-> chk, val |-> 0, ev |-> NoEvict, off |-> offset]
               /\ UNCHANGED <<heap, shadow>>
          ELSE IF idx # "ok"
          THEN /\ heap' = [heap EXCEPT ![o].modified = TRUE]
               /\ last' = [op |-> "modify", id |-> heap[o].block_id, obj |-> o,
                           out |-> idx, val |-> 0, ev |-> NoEvict, off |-> offset]
               /\ UNCHANGED shadow
          ELSE /\ heap' = [heap EXCEPT ![o].cache = bc.cache, ![o].modified = bc.modified]
               /\ shadow' = [shadow EXCEPT ![heap[o].block_id] = v]
               /\ last' = [op |-> "modify", id |-> heap[o].block_id, obj |-> o,
                           out |-> "ok", val |-> v, ev |-> NoEvict, off |-> offset]
    /\ io' = <<>>
    /\ UNCHANGED <<queue, held, dev, got>>

\* handle.lock().read(offset, |x: &u32| *x), in a build with or without
\* overflow checks. get_ref asserts, then takes the address of cache[offset].
Read(o, offset, overflow_checks) ==
    /\ ~Halted
    /\ o \in DOMAIN held
    /\ held[o] > 0
    /\ heap[o].block_id \in ActiveIds
    /\ io' = <<>>
    /\ LET chk == CheckOffset(offset, overflow_checks)
           idx == addr_of_offset(offset)
       IN last' = [op |-> "read", id |-> heap[o].block_id, obj |-> o,
                   out |-> IF chk # "ok" THEN chk ELSE idx,
                   val |-> IF chk = "ok" /\ idx = "ok" THEN get_ref(heap[o]) ELSE 0,
                   ev |-> NoEvict, off |-> offset]
    /\ UNCHANGED <<queue, heap, held, dev, got, shadow>>

\* A sync_all loop that stops after the first entry.
SyncFrontOnly(q, i, h, d, log) ==
    IF Len(q) = 0
    THEN [heap |-> h, dev |-> d, io |-> log]
    ELSE LET o == q[1][2]
         IN IF h[o].modified
            THEN [heap |-> [h EXCEPT ![o].modified = FALSE],
                  dev |-> [d EXCEPT ![h[o].block_id] = h[o].cache],
                  io |-> log \o <<[op |-> "write_block", id |-> h[o].block_id,
                                   val |-> h[o].cache]>>]
            ELSE [heap |-> h, dev |-> d, io |-> log]

\* block_cache_sync_all: sync every entry of the queue, front to back.
RECURSIVE SyncFrom(_, _, _, _, _)
SyncFrom(q, i, h, d, log) ==
    IF i > Len(q)
    THEN [heap |-> h, dev |-> d, io |-> log]
    ELSE LET o == q[i][2]
             s == sync([cache |-> h[o].cache, block_id |-> h[o].block_id,
                        modified |-> h[o].modified], d)
         IN SyncFrom(q, i + 1, [h EXCEPT ![o].modified = s.bc.modified], s.dev,
                     log \o s.io)

block_cache_sync_all ==
    /\ ~Halted
    /\ LET r == SyncFrom(queue, 1, heap, dev, <<>>)
       IN /\ heap' = r.heap
          /\ dev' = r.dev
          /\ io' = r.io
    /\ last' = [op |-> "sync_all", id |-> -1, obj |-> None, out |-> "ok", val |-> 0,
                ev |-> NoEvict]
    /\ UNCHANGED <<queue, held, got, shadow>>

CacheInit ==
    /\ queue = <<>>
    /\ heap = <<>>
    /\ held = <<>>
    /\ dev = [b \in BlockIds |-> InitContent(b)]
    /\ last = [op |-> "init", id |-> -1, obj |-> None, out |-> "ok", val |-> 0,
               ev |-> NoEvict]
    /\ io = <<>>
    /\ got = [b \in BlockIds \cup {-1} |-> None]
    /\ shadow = [b \in BlockIds |-> InitContent(b)]

(***************************************************************************)
(* Locking.  Three kinds of spin::Mutex: Inode.fs, BLOCK_CACHE_MANAGER and *)
(* one per BlockCache.  lock() spins until the mutex is free; a guard that *)
(* is a temporary is released at the end of its statement.                 *)
(***************************************************************************)
NumThreads == 2
MaxScan == 1

Threads == 1 .. NumThreads
NoThread == 0
\* The block of the directory's DiskInode and the block of its DirEntry data;
\* both are resident, in this order, in BlockCacheManager.queue.
LockQueue == <<"inode", "data">>
LockBlocks == {"inode", "data"}
Ops == {"find", "ls", "user", "sync_all"}

Idle == [op |-> "none", pc |-> "idle", blk |-> "inode", left |-> 0, j |-> 0]

LockInit ==
    /\ th = [t \in Threads |-> Idle]
    /\ fs_lock = NoThread
    /\ mgr_lock = NoThread
    /\ blk_lock = [b \in LockBlocks |-> NoThread]

\* A thread enters Inode::find, Inode::ls, a direct get_block_cache(b).lock()
\* or block_cache_sync_all; n is the directory's file_count.
Begin(t, o, b, n) ==
    /\ th[t].pc = "idle"
    /\ th' = [th EXCEPT ![t] =
                 [op |-> o,
                  pc |-> CASE o = "find" -> "fs_lock"
                           [] o = "ls" -> "rdi_get"
                           [] o = "user" -> "user_get"
                           [] OTHER -> "sa_lock",
                  blk |-> IF o = "user" THEN b ELSE "inode",
                  left |-> IF o \in {"find", "ls"} THEN n ELSE 0,
                  j |-> 1]]
    /\ UNCHANGED <<fs_lock, mgr_lock, blk_lock>>

\* Inode::find: let fs = self.fs.lock();
LockFs(t) ==
    /\ th[t].pc = "fs_lock"
    /\ fs_lock = NoThread
    /\ fs_lock' = t
    /\ th' = [th EXCEPT ![t].pc = "rdi_get"]
    /\ UNCHANGED <<mgr_lock, blk_lock>>

\* pub fn get_block_cache: BLOCK_CACHE_MANAGER.lock()
LockManager(t) ==
    /\ th[t].pc \in {"rdi_get", "ra_get", "user_get", "sa_lock"}
    /\ mgr_lock = NoThread
    /\ mgr_lock' = t
    /\ th' = [th EXCEPT ![t].pc = CASE th[t].pc = "rdi_get" -> "rdi_got"
                                    [] th[t].pc = "ra_get" -> "ra_got"
                                    [] th[t].pc = "user_get" -> "user_got"
                                    [] OTHER -> "sa_iter"]
    /\ UNCHANGED <<fs_lock, blk_lock>>

\* pub fn get_block_cache returns: the manager's guard is dropped.
\* block_cache_sync_all returns after its loop: the guard is dropped.
UnlockManager(t) ==
    /\ \/ th[t].pc \in {"rdi_got", "ra_got", "user_got"}
       \/ th[t].pc = "sa_iter" /\ th[t].j > Len(LockQueue)
    /\ mgr_lock = t
    /\ mgr_lock' = NoThread
    /\ th' = [th EXCEPT ![t] =
                 CASE th[t].pc = "rdi_got" -> [@ EXCEPT !.pc = "rdi_lock", !.blk = "inode"]
                   [] th[t].pc = "ra_got" -> [@ EXCEPT !.pc = "ra_lock", !.blk = "data"]
                   [] th[t].pc = "user_got" -> [@ EXCEPT !.pc = "user_lock"]
                   [] OTHER -> Idle]
    /\ UNCHANGED <<fs_lock, blk_lock>>

\* The block a thread at a per-block lock() asks for.
WantedBlock(r) == IF r.pc = "sa_iter" THEN LockQueue[r.j] ELSE r.blk

\* .lock() on the Arc<Mutex<BlockCache>>: in read_disk_inode, in read_at, in
\* a direct user, in the loop of block_cache_sync_all.
LockBlock(t) ==
    /\ \/ th[t].pc \in {"rdi_lock", "ra_lock", "user_lock"}
       \/ th[t].pc = "sa_iter" /\ th[t].j <= Len(LockQueue)
    /\ blk_lock[WantedBlock(th[t])] = NoThread
    /\ blk_lock' = [blk_lock EXCEPT ![WantedBlock(th[t])] = t]
    /\ th' = [th EXCEPT ![t].pc = CASE th[t].pc = "rdi_lock" -> "scan"
                                    [] th[t].pc = "ra_lock" -> "ra_read"
                                    [] th[t].pc = "user_lock" -> "user_cb"
                                    [] OTHER -> "sa_sync"]
    /\ UNCHANGED <<fs_lock, mgr_lock>>

\* The callback of read_disk_inode: find_inode_id / the closure of ls reads
\* the next DirEntry with DiskInode::read_at, or the loop is over.
ScanNext(t) ==
    /\ th[t].pc = "scan"
    /\ th' = [th EXCEPT ![t] = IF th[t].left > 0
                                THEN [@ EXCEPT !.pc = "ra_get", !.left = @ - 1]
                                ELSE [@ EXCEPT !.pc = "rdi_unlock"]]
    /\ UNCHANGED <<fs_lock, mgr_lock, blk_lock>>

\* The per-block guard is dropped: read_at's, read_disk_inode's, a direct
\* user's, or the one of an iteration of block_cache_sync_all.
UnlockBlock(t) ==
    /\ th[t].pc \in {"ra_read", "rdi_unlock", "user_cb", "sa_sync"}
    /\ LET b == CASE th[t].pc = "ra_read" -> "data"
                  [] th[t].pc = "rdi_unlock" -> "inode"
                  [] th[t].pc = "user_cb" -> th[t].blk
                  [] OTHER -> LockQueue[th[t].j]
       IN /\ blk_lock[b] = t
          /\ blk_lock' = [blk_lock EXCEPT ![b] = NoThread]
    /\ th' = [th EXCEPT ![t] =
                 CASE th[t].pc = "ra_read" -> [@ EXCEPT !.pc = "scan"]
                   [] th[t].pc = "rdi_unlock" ->
                          IF th[t].op = "find" THEN [@ EXCEPT !.pc = "fs_unlock"] ELSE Idle
                   [] th[t].pc = "user_cb" -> Idle
                   [] OTHER -> [@ EXCEPT !.pc = "sa_iter", !.j = @ + 1]]
    /\ UNCHANGED <<fs_lock, mgr_lock>>

\* Inode::find returns: fs is dropped.
UnlockFs(t) ==
    /\ th[t].pc = "fs_unlock"
    /\ fs_lock = t
    /\ fs_lock' = NoThread
    /\ th' = [th EXCEPT ![t] = Idle]
    /\ UNCHANGED <<mgr_lock, blk_lock>>

LockNext ==
    \/ \E t \in Threads, o \in Ops, b \in LockBlocks, n \in 0 .. MaxScan :
           Begin(t, o, b, n) /\ UNCHANGED <<cacheVars, vfsVars>>
    \/ \E t \in Threads : LockFs(t) /\ UNCHANGED <<cacheVars, vfsVars>>
    \/ \E t \in Threads : LockManager(t) /\ UNCHANGED <<cacheVars, vfsVars>>
    \/ \E t \in Threads : UnlockManager(t) /\ UNCHANGED <<cacheVars, vfsVars>>
    \/ \E t \in Threads : LockBlock(t) /\ UNCHANGED <<cacheVars, vfsVars>>
    \/ \E t \in Threads : ScanNext(t) /\ UNCHANGED <<cacheVars, vfsVars>>
    \/ \E t \in Threads : UnlockBlock(t) /\ UNCHANGED <<cacheVars, vfsVars>>
    \/ \E t \in Threads : UnlockFs(t) /\ UNCHANGED <<cacheVars, vfsVars>>

(***************************************************************************)
(* The inode layer: Inode::find, Inode::find_inode_id, Inode::ls.          *)
(* dir is the DiskInode as read_disk_inode's callback sees it through the  *)
(* cache; each call runs to its end before the next begins (the locks are  *)
(* the subject of SpecLock, the pool of Spec).                             *)
(***************************************************************************)
DIRENT_SZ == 32
INODE_SZ == 128

MaxEntries == 2
MaxInodeId == 5
InodeAreaStart == 2

Names == {"a", "b"}
InodeIds == 0 .. MaxInodeId
DirEntries == [name : Names, inode_number : InodeIds]

RECURSIVE SeqsUpTo(_, _)
SeqsUpTo(S, n) ==
    IF n = 0
    THEN {<<>>}
    ELSE LET shorter == SeqsUpTo(S, n - 1)
         IN shorter \cup {Append(q, x) : q \in {r \in shorter : Len(r) = n - 1}, x \in S}

\* A DiskInode of the given type whose content is the given DirEntry records.
DiskInodeOf(type, entries) ==
    [type |-> type, size |-> DIRENT_SZ * Len(entries), entries |-> entries]

\* DiskInode::is_dir
is_dir(disk_inode) == disk_inode.type = "Directory"

\* DiskInode::read_at(offset, buf of DIRENT_SZ bytes): the bytes below size
\* that were read, and the record at that offset.
read_at(disk_inode, offset) ==
    LET end == IF offset + DIRENT_SZ <= disk_inode.size
               THEN offset + DIRENT_SZ
               ELSE disk_inode.size
    IN IF offset >= end
       THEN [n |-> 0, dirent |-> [name |-> "", inode_number |-> 0]]
       ELSE [n |-> end - offset, dirent |-> disk_inode.entries[(offset \div DIRENT_SZ) + 1]]

\* EasyFileSystem::get_disk_inode_pos: DiskInode records are packed in the
\* inode area.
get_disk_inode_pos(inode_id) ==
    LET inodes_per_block == BLOCK_SZ \div INODE_SZ
    IN [block_id |-> InodeAreaStart + (inode_id \div inodes_per_block),
        block_offset |-> (inode_id % inodes_per_block) * INODE_SZ]

NoneResult == [kind |-> "None"]
SomeResult(x) == [kind |-> "Some", val |-> x]
PanicResult == [kind |-> "Panic"]
\* The value of a for loop that ends without a return: (), not an Option.
UnitResult == [kind |-> "()"]

\* The value of find_inode_id's body once its for loop has run out.
AfterLoop == UnitResult

\* A scan that keeps going after a match and returns the last one.
ScanFromLast(name, disk_inode, i, file_count) ==
    LET hits == {k \in (i + 1) .. file_count : disk_inode.entries[k].name = name}
    IN IF hits = {}
       THEN [kind |-> "()"]
       ELSE [kind |-> "Some",
             val |-> disk_inode.entries[CHOOSE k \in hits : \A m \in hits : m <= k].inode_number]

\* for i in 0..file_count of find_inode_id, from index i on.
RECURSIVE ScanFrom(_, _, _, _)
ScanFrom(name, disk_inode, i, file_count) ==
    IF i >= file_count
    THEN AfterLoop
    ELSE LET r == read_at(disk_inode, DIRENT_SZ * i)
         IN IF r.n # DIRENT_SZ
            THEN PanicResult
            ELSE IF r.dirent.name = name
            THEN SomeResult(r.dirent.inode_number)
            ELSE ScanFrom(name, disk_inode, i + 1, file_count)

\* Inode::find_inode_id
find_inode_id(name, disk_inode) ==
    IF ~is_dir(disk_inode)
    THEN PanicResult
    ELSE ScanFrom(name, disk_inode, 0, disk_inode.size \div DIRENT_SZ)

\* Inode::find: the closure maps a found inode id to a new handle.
find(name, disk_inode) ==
    LET r == find_inode_id(name, disk_inode)
    IN IF r.kind = "Some"
       THEN SomeResult(get_disk_inode_pos(r.val))
       ELSE r

\* An ls loop that inserts each name at the front of the vector.
LsFromFront(disk_inode, i, file_count, v) ==
    [kind |-> "Names",
     val |-> [k \in 1 .. (file_count - i) |-> disk_inode.entries[file_count + 1 - k].name] \o v]

\* Inode::ls: the names of the first size / DIRENT_SZ records, in order.
RECURSIVE LsFrom(_, _, _, _)
LsFrom(disk_inode, i, file_count, v) ==
    IF i >= file_count
    THEN [kind |-> "Names", val |-> v]
    ELSE LET r == read_at(disk_inode, DIRENT_SZ * i)
         IN IF r.n # DIRENT_SZ
            THEN PanicResult
            ELSE LsFrom(disk_inode, i + 1, file_count, Append(v, r.dirent.name))

ls(disk_inode) == LsFrom(disk_inode, 0, disk_inode.size \div DIRENT_SZ, <<>>)

VfsHalted == vlast.res.kind = "Panic"

Find(name) ==
    /\ ~VfsHalted
    /\ vlast' = [op |-> "find", name |-> name, res |-> find(name, dir)]
    /\ UNCHANGED dir

Ls ==
    /\ ~VfsHalted
    /\ vlast' = [op |-> "ls", name |-> "", res |-> ls(dir)]
    /\ UNCHANGED dir

\* Inode::create: `pub fn create() {}`, a body with no statement. It takes
\* no name and no receiver; name is what the caller meant to create.
Create(name) ==
    /\ ~VfsHalted
    /\ vlast' = [op |-> "create", name |-> name, res |-> UnitResult]
    /\ UNCHANGED dir

\* The root directory as formatting leaves it, before any call.
VfsInit ==
    /\ dir = DiskInodeOf("Directory", <<>>)
    /\ vlast = [op |-> "init", name |-> "", res |-> NoneResult]

\* Any directory or file of up to MaxEntries records.
VfsInputs ==
    /\ dir \in {DiskInodeOf(type, e) :
                    type \in {"Directory", "File"}, e \in SeqsUpTo(DirEntries, MaxEntries)}
    /\ vlast = [op |-> "init", name |-> "", res |-> NoneResult]

VfsNext ==
    \/ \E name \in Names : Find(name) /\ UNCHANGED <<cacheVars, lockVars>>
    \/ Ls /\ UNCHANGED <<cacheVars, lockVars>>
    \/ \E name \in Names : Create(name) /\ UNCHANGED <<cacheVars, lockVars>>

VfsSpecInit == CacheInit /\ LockInit /\ VfsInputs

SpecVfs == VfsSpecInit /\ [][VfsNext]_vars

Init == CacheInit /\ LockInit /\ VfsInit

Next ==
    \/ \E b \in BlockIds : get_block_cache(b) /\ UNCHANGED <<lockVars, vfsVars>>
    \/ \E o \in DOMAIN held : Release(o) /\ UNCHANGED <<lockVars, vfsVars>>
    \/ \E o \in DOMAIN held, v \in Values, offset \in Offsets, overflow_checks \in BOOLEAN :
           Modify(o, v, offset, overflow_checks) /\ UNCHANGED <<lockVars, vfsVars>>
    \/ \E o \in DOMAIN held, offset \in Offsets, overflow_checks \in BOOLEAN :
           Read(o, offset, overflow_checks) /\ UNCHANGED <<lockVars, vfsVars>>
    \/ block_cache_sync_all /\ UNCHANGED <<lockVars, vfsVars>>

Spec == Init /\ [][Next]_vars

SpecLock == Init /\ [][LockNext]_vars

(***************************************************************************)
(* Properties of the block cache, checked under Spec.                      *)
(***************************************************************************)
Resident(q, o) == \E i \in 1 .. Len(q) : q[i][2] = o
ResidentId(q, b) == \E i \in 1 .. Len(q) : q[i][1] = b
AllPinned(q, h) == \A i \in 1 .. Len(q) : strong_count(h, q[i][2]) > 1
Evicted == last.op = "get" /\ last.out = "evict"

\* C1: the entry get_block_cache removes on a miss at capacity has a strong
\* count of exactly one when it is removed, and no object a caller still
\* holds a handle on is ever outside the pool.
C1_EvictOnlyUnpinned ==
    /\ Evicted => last.ev.strong = 1
    /\ \A o \in DOMAIN held : held[o] > 0 => Resident(queue, o)

\* C1 witness: an eviction happened while other entries were pinned.
C1_Witness ==
    /\ Evicted
    /\ last.ev.strong = 1
    /\ \E i \in 1 .. Len(queue) : strong_count(heap, queue[i][2]) > 1

\* C2: with BLOCK_CACHE_SIZE entries, all pinned, a get_block_cache of a block
\* that is not resident ends in CacheExhausted, and leaves the pool, every
\* buffer and dirty flag and the device as they were, with no device
\* operation issued.
C2_ExhaustedLeavesAll ==
    [][(/\ Len(queue) = BLOCK_CACHE_SIZE
        /\ AllPinned(queue, heap)
        /\ last'.op = "get"
        /\ ~ResidentId(queue, last'.id))
       => (/\ last'.out = "CacheExhausted"
           /\ queue' = queue
           /\ heap' = heap
           /\ held' = held
           /\ dev' = dev
           /\ io' = <<>>)]_vars

\* C2 witness: the failure happened on a full, fully pinned pool.
C2_Witness ==
    /\ last.op = "get"
    /\ last.out = "CacheExhausted"
    /\ Len(queue) = BLOCK_CACHE_SIZE
    /\ AllPinned(queue, heap)
    /\ ~ResidentId(queue, last.id)

\* C3: the pool never holds more than BLOCK_CACHE_SIZE entries.
C3_PoolBounded == Len(queue) <= BLOCK_CACHE_SIZE

\* C3 witness: a miss on a full pool left the pool full.
C3_Witness == Evicted /\ Len(queue) = BLOCK_CACHE_SIZE

\* C4: no two pool entries have the same block id, and no two live
\* BlockCache objects, resident or only held by callers, mirror the same
\* block.
C4_OneMirrorPerBlock ==
    /\ \A i, j \in 1 .. Len(queue) : queue[i][1] = queue[j][1] => i = j
    /\ \A o1, o2 \in DOMAIN heap : heap[o1].block_id = heap[o2].block_id => o1 = o2
    /\ \A i \in 1 .. Len(queue) :
           queue[i][2] \in DOMAIN heap /\ heap[queue[i][2]].block_id = queue[i][1]

\* C4 witness: a block that two callers hold was asked for again after
\* another block was evicted and reloaded.
C4_Witness ==
    /\ last.op = "get"
    /\ last.out = "hit"
    /\ held[last.obj] = 2
    /\ \E b \in ActiveIds : ~ResidentId(queue, b) /\ shadow[b] # InitContent(b)

\* C5: a get_block_cache of a block whose earlier handle is of an entry not
\* evicted since returns that same object and issues no device operation,
\* and a read that returns through any handle returns the value last
\* written to the block through any handle.
C5_CacheIdentity ==
    [][/\ (last'.op = "get" /\ got[last'.id] # None)
          => (last'.obj = got[last'.id] /\ io' = <<>> /\ last'.out = "hit")
       /\ (last'.op = "read" /\ last'.out = "ok") => (last'.val = shadow'[last'.id])]_vars

\* C5 witness: a read through an entry two callers hold saw a written value.
C5_Witness ==
    /\ last.op = "read"
    /\ last.out = "ok"
    /\ held[last.obj] = 2
    /\ last.val # InitContent(last.id)
    /\ last.val = shadow[last.id]

BufferOf(e) == [cache |-> e.cache, block_id |-> e.block_id, modified |-> e.modified]

\* C6: sync of an entry issues exactly one write_block of its block with its
\* buffer if it is dirty and none if it is clean, leaves it clean with the
\* same buffer, and a second sync right after issues no write and changes
\* nothing.
C6_SyncIdempotent ==
    \A o \in DOMAIN heap :
        LET bc == BufferOf(heap[o])
            s1 == sync(bc, dev)
            s2 == sync(s1.bc, s1.dev)
        IN /\ s1.io = IF bc.modified THEN <<WriteOp(bc.block_id, bc.cache)>> ELSE <<>>
           /\ ~s1.bc.modified
           /\ s1.bc.cache = bc.cache
           /\ s1.dev[bc.block_id] = IF bc.modified THEN bc.cache ELSE dev[bc.block_id]
           /\ s2.io = <<>>
           /\ s2.bc = s1.bc
           /\ s2.dev = s1.dev

\* C6 witness: a dirty entry is live after an earlier write-back reached the
\* device.
C6_Witness ==
    /\ last.op = "modify"
    /\ last.out = "ok"
    /\ \E o \in DOMAIN heap : heap[o].modified
    /\ \E b \in ActiveIds : dev[b] # InitContent(b)

WritesOf(s, b) == SelectSeq(s, LAMBDA e : e.op = "write_block" /\ e.id = b)

\* C7: an evicted entry is gone after the step; if it was dirty its buffer
\* was written to its own block exactly once, if it was clean nothing was
\* written. Whenever a dirty entry becomes clean or ceases to exist, the step
\* issued exactly one write_block of its block, with its buffer.
C7_EvictionWritesBack ==
    [][/\ (last'.op = "get" /\ last'.out = "evict")
          => (/\ last'.ev.freed
              /\ Writes(io') = IF last'.ev.modified
                               THEN <<WriteOp(last'.ev.id, last'.ev.cache)>>
                               ELSE <<>>
              /\ last'.ev.modified => dev'[last'.ev.id] = last'.ev.cache)
       /\ \A o \in DOMAIN heap :
              (heap[o].modified /\ (o \notin DOMAIN heap' \/ ~heap'[o].modified))
              => WritesOf(io', heap[o].block_id)
                     = <<WriteOp(heap[o].block_id, heap[o].cache)>>]_vars

\* C7 witness: a dirty entry was evicted and its buffer is on the device.
C7_Witness ==
    /\ Evicted
    /\ last.ev.modified
    /\ dev[last.ev.id] = last.ev.cache
    /\ dev[last.ev.id] # InitContent(last.ev.id)

RECURSIVE DirtyWrites(_, _, _)
DirtyWrites(q, h, i) ==
    IF i > Len(q)
    THEN <<>>
    ELSE (IF h[q[i][2]].modified
          THEN <<WriteOp(q[i][1], h[q[i][2]].cache)>>
          ELSE <<>>) \o DirtyWrites(q, h, i + 1)

\* C8: block_cache_sync_all leaves every resident entry clean with the device
\* holding its buffer, writes each dirty resident block once and no clean
\* one, and leaves the pool as it was; a step that is neither it nor an
\* eviction writes nothing to the device.
C8_SyncAll ==
    [][/\ (last'.op = "sync_all")
          => (/\ queue' = queue
              /\ held' = held
              /\ \A i \in 1 .. Len(queue') :
                     /\ ~heap'[queue'[i][2]].modified
                     /\ heap'[queue'[i][2]].cache = heap[queue[i][2]].cache
                     /\ dev'[queue'[i][1]] = heap'[queue'[i][2]].cache
              /\ io' = DirtyWrites(queue, heap, 1))
       /\ (last'.op # "sync_all" /\ ~(last'.op = "get" /\ last'.out = "evict"))
          => (Writes(io') = <<>> /\ dev' = dev)]_vars

\* C8 witness: block_cache_sync_all wrote a dirty block back.
C8_Witness ==
    /\ last.op = "sync_all"
    /\ Len(io) >= 1
    /\ \E b \in ActiveIds : dev[b] # InitContent(b) /\ ResidentId(queue, b)

OldestUnpinned(q, h) ==
    CHOOSE i \in 1 .. Len(q) :
        /\ h[q[i][2]].strong = 1
        /\ \A j \in 1 .. (i - 1) : h[q[j][2]].strong > 1

\* C15: a get_block_cache of a block that is not resident, on a pool of
\* BLOCK_CACHE_SIZE entries of which one at least is unpinned, removes the
\* entry closest to the head whose strong count is one and no other; the
\* entries that stay keep their order, the new entry is the last, and the
\* pool still has BLOCK_CACHE_SIZE entries.
C15_EvictOldestUnpinned ==
    [][(/\ last'.op = "get"
        /\ ~ResidentId(queue, last'.id)
        /\ Len(queue) = BLOCK_CACHE_SIZE
        /\ ~AllPinned(queue, heap))
       => LET idx == OldestUnpinned(queue, heap)
          IN /\ last'.out = "evict"
             /\ last'.ev.id = queue[idx][1]
             /\ last'.ev.obj = queue[idx][2]
             /\ Len(queue') = BLOCK_CACHE_SIZE
             /\ \A i \in 1 .. (idx - 1) : queue'[i] = queue[i]
             /\ \A i \in (idx + 1) .. Len(queue) : queue'[i - 1] = queue[i]
             /\ queue'[Len(queue')] = <<last'.id, last'.obj>>]_vars

\* C15 witness: an eviction left in the pool a younger entry that was
\* unpinned too, ahead of the new entry.
C15_Witness ==
    /\ Evicted
    /\ Len(queue) = BLOCK_CACHE_SIZE
    /\ queue[Len(queue)][1] = last.id
    /\ \E i \in 1 .. (Len(queue) - 1) :
           queue[i][1] \in ActiveIds /\ heap[queue[i][2]].strong = 1

\* C16: a get_block_cache of a resident block leaves the pool's entries and
\* their order, every buffer and dirty flag and the device as they were and
\* issues no device operation; the returned entry has one more holder and no
\* other entry's holders change.
C16_HitFrame ==
    [][(last'.op = "get" /\ ResidentId(queue, last'.id))
       => (/\ last'.out = "hit"
           /\ queue' = queue
           /\ dev' = dev
           /\ io' = <<>>
           /\ DOMAIN heap' = DOMAIN heap
           /\ heap[last'.obj].block_id = last'.id
           /\ \A o \in DOMAIN heap :
                  /\ heap'[o].cache = heap[o].cache
                  /\ heap'[o].modified = heap[o].modified
                  /\ heap'[o].block_id = heap[o].block_id
                  /\ heap'[o].strong = heap[o].strong + (IF o = last'.obj THEN 1 ELSE 0)
                  /\ held'[o] = held[o] + (IF o = last'.obj THEN 1 ELSE 0))]_vars

\* C16 witness: a hit on a dirty entry that is not the newest of the pool and
\* that a caller already held.
C16_Witness ==
    /\ last.op = "get"
    /\ last.out = "hit"
    /\ heap[last.obj].modified
    /\ held[last.obj] = 2
    /\ \E i \in 1 .. (Len(queue) - 1) : queue[i][2] = last.obj

\* C17: a get_block_cache of a block that is not resident, on a pool below
\* capacity or with an unpinned entry, issues exactly one read_block, of the
\* requested block; the entry it returns is the last of the pool, is clean,
\* and its buffer is what the device holds for that block.
C17_MissReadsOnce ==
    [][(/\ last'.op = "get"
        /\ ~ResidentId(queue, last'.id)
        /\ (Len(queue) < BLOCK_CACHE_SIZE \/ ~AllPinned(queue, heap)))
       => (/\ last'.out \in {"miss", "evict"}
           /\ Reads(io') = <<ReadOp(last'.id)>>
           /\ queue'[Len(queue')] = <<last'.id, last'.obj>>
           /\ heap'[last'.obj].block_id = last'.id
           /\ heap'[last'.obj].cache = dev'[last'.id]
           /\ dev'[last'.id] = dev[last'.id]
           /\ ~heap'[last'.obj].modified)]_vars

\* C17 witness: a miss below capacity loaded a block whose content is not
\* zero.
C17_Witness ==
    /\ last.op = "get"
    /\ last.out = "miss"
    /\ io = <<ReadOp(last.id)>>
    /\ heap[last.obj].cache = dev[last.id]
    /\ heap[last.obj].cache # 0
    /\ queue[Len(queue)] = <<last.id, last.obj>>

\* What a plain block store would hold for block b: the buffer of b's live
\* entry if there is one, the device's content otherwise.
StoreContent(b) ==
    IF \E o \in DOMAIN heap : heap[o].block_id = b
    THEN heap[CHOOSE o \in DOMAIN heap : heap[o].block_id = b].cache
    ELSE dev[b]

\* C19: cache and device together are a plain block store: for every block,
\* resident or not, dirty or not, evicted and reloaded or not, the content
\* seen through the cache is the value last written to the block through
\* the cache, the initial device content if there was no write; a read
\* returns it.
C19_PlainBlockStore ==
    /\ \A b \in BlockIds : StoreContent(b) = shadow[b]
    /\ (last.op = "read" /\ last.out = "ok") => last.val = shadow[last.id]
    /\ (last.op = "modify" /\ last.out = "ok") => shadow[last.id] = last.val

\* C19 witness: a miss evicted a dirty entry and reloaded a block that had
\* been written and evicted, with the written value.
C19_Witness ==
    /\ Evicted
    /\ last.ev.modified
    /\ ~ResidentId(queue, last.ev.id)
    /\ shadow[last.ev.id] # InitContent(last.ev.id)
    /\ heap[last.obj].cache # InitContent(last.id)
    /\ heap[last.obj].cache = shadow[last.id]

\* C20: every live entry whose dirty flag is clear has the buffer the device
\* holds for its block; the two differ only while the entry is dirty.
C20_CleanMatchesDevice ==
    \A o \in DOMAIN heap : ~heap[o].modified => heap[o].cache = dev[heap[o].block_id]

\* C20 witness: a clean entry holds a written value that reached the device
\* while another entry is dirty and not yet on the device.
C20_Witness ==
    /\ \E o \in DOMAIN heap :
           /\ ~heap[o].modified
           /\ heap[o].cache # InitContent(heap[o].block_id)
           /\ heap[o].cache = dev[heap[o].block_id]
    /\ \E o \in DOMAIN heap : heap[o].modified /\ heap[o].cache # dev[heap[o].block_id]

\* C18: a modify whose offset + type_size is at most BLOCK_SZ succeeds and
\* leaves the entry dirty, whatever the callback stores; a read changes no
\* buffer and no dirty flag; a read or modify whose offset + type_size
\* exceeds BLOCK_SZ fails fatally and leaves the buffer and the dirty flag
\* of the entry as they were.
C18_BoundsAndDirty ==
    [][/\ (last'.op = "modify" /\ last'.off + type_size <= BLOCK_SZ)
          => (last'.out = "ok" /\ heap'[last'.obj].modified)
       /\ (last'.op = "read") => (heap' = heap /\ dev' = dev)
       /\ (last'.op \in {"read", "modify"} /\ last'.off + type_size > BLOCK_SZ)
          => (/\ last'.out # "ok"
              /\ heap'[last'.obj].cache = heap[last'.obj].cache
              /\ heap'[last'.obj].modified = heap[last'.obj].modified)]_vars

(***************************************************************************)
(* Properties of the locking, checked under SpecLock.                      *)
(***************************************************************************)
\* Thread t spins in lock() on a mutex that is taken.
Blocked(t) ==
    LET r == th[t]
    IN \/ r.pc = "fs_lock" /\ fs_lock # NoThread
       \/ r.pc \in {"rdi_get", "ra_get", "user_get", "sa_lock"} /\ mgr_lock # NoThread
       \/ /\ \/ r.pc \in {"rdi_lock", "ra_lock", "user_lock"}
             \/ r.pc = "sa_iter" /\ r.j <= Len(LockQueue)
          /\ blk_lock[WantedBlock(r)] # NoThread

\* Thread t spins on the manager's lock, which u holds.
WaitsForManagerOf(t, u) ==
    /\ th[t].pc \in {"rdi_get", "ra_get", "user_get", "sa_lock"}
    /\ mgr_lock = u

\* Thread u spins on the lock of a block whose lock t holds.
WaitsForBlockOf(u, t) ==
    /\ \/ th[u].pc \in {"rdi_lock", "ra_lock", "user_lock"}
       \/ th[u].pc = "sa_iter" /\ th[u].j <= Len(LockQueue)
    /\ blk_lock[WantedBlock(th[u])] = t

\* C9: no state is reachable in which every thread spins on a lock, and no
\* thread that holds a per-block lock spins on a lock whose holder spins on
\* that per-block lock.
C9_DeadlockFree ==
    /\ ~(\A t \in Threads : Blocked(t))
    /\ \A t, u \in Threads :
           ~(t # u /\ WaitsForManagerOf(t, u) /\ WaitsForBlockOf(u, t))

\* Thread t is inside the directory scan of find or ls: between entering
\* read_disk_inode and leaving it.
Scanning(t) ==
    /\ th[t].op \in {"find", "ls"}
    /\ th[t].pc \in {"rdi_get", "rdi_got", "rdi_lock", "scan", "ra_get", "ra_got",
                     "ra_lock", "ra_read", "rdi_unlock"}

\* C14: a thread that is inside the directory scan of find or ls holds the
\* filesystem-wide lock, so no two scans, and no scan and any other holder
\* of that lock, run at the same time.
C14_ScanHoldsFsLock ==
    \A t \in Threads : Scanning(t) => fs_lock = t

(***************************************************************************)
(* Properties of the inode layer, checked under SpecVfs.                   *)
(***************************************************************************)
NoEntryNamed(disk_inode, name) ==
    \A i \in 1 .. Len(disk_inode.entries) : disk_inode.entries[i].name # name

\* C10: find(name) on a directory none of whose DirEntry records has that
\* name returns the absent result, neither a failure nor a handle, and
\* leaves the directory as it was.
C10_FindAbsent ==
    [][(/\ vlast'.op = "find"
        /\ is_dir(dir)
        /\ NoEntryNamed(dir, vlast'.name))
       => (vlast'.res = NoneResult /\ dir' = dir)]_vars

HasEntryNamed(disk_inode, name) ==
    \E i \in 1 .. Len(disk_inode.entries) : disk_inode.entries[i].name = name

FirstMatch(disk_inode, name) ==
    CHOOSE i \in 1 .. Len(disk_inode.entries) :
        /\ disk_inode.entries[i].name = name
        /\ \A j \in 1 .. (i - 1) : disk_inode.entries[j].name # name

\* C11: find(name) on a directory with a DirEntry of that name returns a
\* handle located at get_disk_inode_pos of the inode id in the lowest-index
\* matching record; find on an inode that is not a directory fails fatally.
C11_FindFirstMatch ==
    [][(vlast'.op = "find")
       => (/\ (is_dir(dir) /\ HasEntryNamed(dir, vlast'.name))
              => vlast'.res = SomeResult(get_disk_inode_pos(
                                  dir.entries[FirstMatch(dir, vlast'.name)].inode_number))
           /\ ~is_dir(dir) => vlast'.res = PanicResult
           /\ dir' = dir)]_vars

\* C11 witness: find returned the first of two records of the same name that
\* name different inodes in different blocks.
C11_Witness ==
    /\ vlast.op = "find"
    /\ is_dir(dir)
    /\ Len(dir.entries) = 2
    /\ dir.entries[1].name = vlast.name
    /\ dir.entries[2].name = vlast.name
    /\ get_disk_inode_pos(dir.entries[1].inode_number).block_id
           # get_disk_inode_pos(dir.entries[2].inode_number).block_id
    /\ vlast.res = SomeResult(get_disk_inode_pos(dir.entries[1].inode_number))

\* C12: ls returns exactly size / DIRENT_SZ names, the i-th being the name of
\* the i-th DirEntry record, duplicates kept, and leaves the directory as it
\* was.
C12_LsInOrder ==
    [][(vlast'.op = "ls" /\ is_dir(dir))
       => (/\ vlast'.res.kind = "Names"
           /\ Len(vlast'.res.val) = dir.size \div DIRENT_SZ
           /\ \A i \in 1 .. Len(vlast'.res.val) : vlast'.res.val[i] = dir.entries[i].name
           /\ dir' = dir)]_vars

\* C12 witness: ls listed two records out of alphabetical order, and one
\* with a repeated name.
C12_Witness ==
    /\ vlast.op = "ls"
    /\ is_dir(dir)
    /\ vlast.res.kind = "Names"
    /\ vlast.res.val \in {<<"b", "a">>, <<"b", "b">>}
    /\ Len(dir.entries) = 2

\* C13: after create(name) on a directory with no entry called name, the
\* directory has one more record, the last, which carries name, so that ls
\* lists name exactly once and find(name) returns a handle; the directory's
\* size stays a multiple of DIRENT_SZ.
C13_CreateAppends ==
    [][(vlast'.op = "create" /\ is_dir(dir) /\ ~HasEntryNamed(dir, vlast'.name))
       => (/\ Len(dir'.entries) = Len(dir.entries) + 1
           /\ SubSeq(dir'.entries, 1, Len(dir.entries)) = dir.entries
           /\ dir'.entries[Len(dir'.entries)].name = vlast'.name
           /\ Cardinality({i \in 1 .. Len(ls(dir').val) : ls(dir').val[i] = vlast'.name}) = 1
           /\ find(vlast'.name, dir').kind = "Some"
           /\ dir'.size % DIRENT_SZ = 0)]_vars

====
